---- MODULE Spec2Model ----
(***************************************************************************)
(* Token ledger and rewards engine of the Carbon Footprint Tracker          *)
(* (src/token_api.py): the three tables of the store, the /earn-tokens      *)
(* handler cut at its database round trips, and the read-only handlers.     *)
(*                                                                          *)
(* Units.  carbon_saved_kg is held in units of 1/KgUnit kg and a token      *)
(* amount in hundredths of a token, so that round(x * TOKENS_PER_KG, 2) is  *)
(* an integer rounding.  A date is a day number; day 0 is EpochDom of the   *)
(* first month of MonthLengths.                                             *)
(***************************************************************************)
EXTENDS Integers, Sequences, FiniteSets, TLC

VARIABLES ledger, board, achievements, today, pc, req, loc, resp

vars == <<ledger, board, achievements, today, pc, req, loc, resp>>
store == <<ledger, board, achievements>>

(***************************************************************************)
(* Bounds of the model.                                                     *)
(***************************************************************************)
\* Accepted earn requests in a run: one at a time, concurrent, on the large board.
MaxEarns == 3
MaxConcEarns == 2
MaxBoardEarns == 2
MaxRoundEarns == 2
MaxIdEarns == 2
\* The last day the clock reaches, and the day of the month of day 0.
MaxDay == 10
EpochDom == 22
\* Registered users of the large board: one more than the leaderboard returns.
BoardUsers == 21

Users == {1, 2}
Procs == {1, 2}

(***************************************************************************)
(* Program constants.                                                       *)
(***************************************************************************)
TOKENS_PER_KG == 10
MAX_SAVINGS_PER_DAY == 1000
LeaderboardLimit == 20
HistoryLimit == 50
WeekDays == 6
KgUnit == 100 * 100
Cents == 100

\* A user identifier is a positive number; NoUser stands for an absent or empty one.
NoUser == 0
\* As the body of a request: JSON that is not an object (an array, a string, a
\* number), which has no fields and no get().  As the result of parse_user_id:
\* the AttributeError of payload.get on such a body.
NotAnObject == 0 - 1

(***************************************************************************)
(* Generic helpers.                                                         *)
(***************************************************************************)
RECURSIVE SumSeq(_)
SumSeq(s) == IF s = <<>> THEN 0 ELSE Head(s) + SumSeq(Tail(s))

Prefix(s, n) == IF Len(s) <= n THEN s ELSE SubSeq(s, 1, n)

Reverse(s) == [i \in 1..Len(s) |-> s[Len(s) + 1 - i]]

RECURSIVE SeqsOver(_, _)
\* All sequences without repetition over the set S of length at most n.
SeqsOver(S, n) ==
  IF n = 0 \/ S = {} THEN {<<>>}
  ELSE {<<>>} \cup UNION {{<<x>> \o t : t \in SeqsOver(S \ {x}, n - 1)} : x \in S}

(***************************************************************************)
(* The calendar: date.today(), timedelta and date.replace(day=1).           *)
(***************************************************************************)
MonthLengths == <<31, 29, 31, 30>>

RECURSIVE DomFrom(_, _)
\* Day of the month of the date that is dom0 - 1 + d days after the first day of
\* month m of MonthLengths.
DomFrom(n, m) ==
  IF n <= MonthLengths[m] THEN n ELSE DomFrom(n - MonthLengths[m], m + 1)

DayOfMonth(d) == DomFrom(EpochDom + d, 1)

\* today.replace(day=1)
month_start(d) == d - (DayOfMonth(d) - 1)

\* A window of eight days: today - timedelta(days=7).
week_start_seven(d) == d - (WeekDays + 1)

\* today - timedelta(days=6)
week_start(d) == d - WeekDays

(***************************************************************************)
(* JSON values of the carbon_saved_kg field and Python's float().           *)
(* k: "absent" (no such key), "null", "num" (a JSON number), "numstr" (a    *)
(* string float() parses), "str" (a string it does not), "nan" (NaN or      *)
(* "nan"), "bool" (n = 1 for true), "list".                                 *)
(***************************************************************************)
JV(k, n) == [k |-> k, n |-> n]

\* payload.get("carbon_saved_kg") without the default: a missing key gives None.
payload_get_no_default(v) == IF v.k = "absent" THEN JV("null", 0) ELSE v

\* payload.get("carbon_saved_kg", 0)
payload_get(v) == IF v.k = "absent" THEN JV("num", 0) ELSE v

\* float(v): exc is the exception raised ("" for none), nan whether the result is
\* NaN, n the result in 1/KgUnit kg.
float(v) ==
  CASE v.k \in {"num", "numstr"} -> [exc |-> "", nan |-> FALSE, n |-> v.n]
    [] v.k = "bool" -> [exc |-> "", nan |-> FALSE, n |-> v.n * KgUnit]
    [] v.k = "nan" -> [exc |-> "", nan |-> TRUE, n |-> 0]
    [] v.k = "str" -> [exc |-> "ValueError", nan |-> FALSE, n |-> 0]
    [] OTHER -> [exc |-> "TypeError", nan |-> FALSE, n |-> 0]

\* A validator whose bounds are exclusive: 0 and MAX_SAVINGS_PER_DAY are refused.
validate_savings_exclusive(f) ==
  IF ~f.nan /\ f.n <= 0 THEN "Carbon saved must be positive."
  ELSE IF ~f.nan /\ f.n >= MAX_SAVINGS_PER_DAY * KgUnit
       THEN "Reported savings exceed realistic thresholds."
       ELSE ""

\* validate_savings: the message of the ValueError raised, "" when it returns.
\* Every comparison with NaN is false.
validate_savings(f) ==
  IF ~f.nan /\ f.n < 0 THEN "Carbon saved must be positive."
  ELSE IF ~f.nan /\ f.n > MAX_SAVINGS_PER_DAY * KgUnit
       THEN "Reported savings exceed realistic thresholds."
       ELSE ""

\* parse_user_id: header, then query parameter, then body field; NoUser when
\* all three are missing or empty (the ValueError).  The body is only looked at
\* when header and query parameter are missing, and a body that is not an object
\* then raises AttributeError (NotAnObject).
parse_user_id(r) ==
  IF r.hdr # NoUser THEN r.hdr
  ELSE IF r.qry # NoUser THEN r.qry
       ELSE r.body

\* round(v, 2) of the float v = n / d hundredths, n >= 0, d > 0: the nearest
\* hundredth.  When the decimal value lies half way between two hundredths, the
\* binary float lies just below or just above it (or on it, and then the even
\* hundredth is taken), so either neighbour can come back.
Round2(n, d) ==
  LET q == n \div d
      r == n % d
  IN IF 2 * r < d THEN {q}
     ELSE IF 2 * r > d THEN {q + 1}
          ELSE {q, q + 1}

\* The token amount with the digits after the hundredths cut off, not rounded.
tokens_for_truncated(n) == {(n * TOKENS_PER_KG) \div (KgUnit \div Cents)}

\* round(carbon_saved_kg * TOKENS_PER_KG, 2), in hundredths of a token: the
\* values the float arithmetic can give for an amount of n / KgUnit kg.
tokens_for(n) == Round2(n * TOKENS_PER_KG, KgUnit \div Cents)

(***************************************************************************)
(* Queries on the three tables.  The ledger, the leaderboard and the        *)
(* achievements are sequences of rows in primary-key order.                 *)
(***************************************************************************)
TokensOf(rows) == SumSeq([i \in 1..Len(rows) |-> rows[i].tokens_earned])

\* TokenLedger.query.filter_by(user_id=user_id)
LedgerOf(l, u) == SelectSeq(l, LAMBDA e : e.user_id = u)

\* aggregate(start): the rows of the user dated start or later
\* The rows dated after the start day, the start day itself left out.
aggregate_after(l, u, start) ==
  TokensOf(SelectSeq(l, LAMBDA e : e.user_id = u /\ e.date > start))

aggregate_from(l, u, start) ==
  TokensOf(SelectSeq(l, LAMBDA e : e.user_id = u /\ e.date >= start))

\* aggregate(): all rows of the user
aggregate_all(l, u) == TokensOf(LedgerOf(l, u))

Totals(t, w, m, a) == [today |-> t, week |-> w, month |-> m, lifetime |-> a]
NoTotals == Totals(0, 0, 0, 0)

summarize_tokens(l, u, d) ==
  Totals(aggregate_from(l, u, d),
         aggregate_from(l, u, week_start(d)),
         aggregate_from(l, u, month_start(d)),
         aggregate_all(l, u))

\* LeaderboardEntry.query.filter_by(user_id=user_id).first()
HasEntry(b, u) == \E i \in 1..Len(b) : b[i].user_id = u
\* A lookup that ignores the user: the first row of the table.
EntryIndexFirst(b, u) == 1

EntryIndex(b, u) == CHOOSE i \in 1..Len(b) : b[i].user_id = u
LifetimeOf(b, u) == b[EntryIndex(b, u)].lifetime_tokens

RECURSIVE InsertDescUnstable(_, _)
\* x placed before the rows whose lifetime_tokens equals its own: ties come back
\* newest first.
InsertDescUnstable(s, x) ==
  IF s = <<>> THEN <<x>>
  ELSE IF Head(s).lifetime_tokens > x.lifetime_tokens
       THEN <<Head(s)>> \o InsertDescUnstable(Tail(s), x)
       ELSE <<x>> \o s

RECURSIVE InsertDesc(_, _)
\* x placed behind every row whose lifetime_tokens is not smaller than its own.
InsertDesc(s, x) ==
  IF s = <<>> THEN <<x>>
  ELSE IF Head(s).lifetime_tokens >= x.lifetime_tokens
       THEN <<Head(s)>> \o InsertDesc(Tail(s), x)
       ELSE <<x>> \o s

RECURSIVE OrderByLifetimeDesc(_)
\* ORDER BY lifetime_tokens DESC over a scan in primary-key order: SQLite sorts
\* on (lifetime_tokens, scan position), so equal totals keep the scan order.
OrderByLifetimeDesc(b) ==
  IF b = <<>> THEN <<>>
  ELSE InsertDesc(OrderByLifetimeDesc(Prefix(b, Len(b) - 1)), b[Len(b)])

\* The rows the /leaderboard handler returns.
top_entries(b) == Prefix(OrderByLifetimeDesc(b), LeaderboardLimit)

\* The badge table of check_achievements, thresholds in hundredths of a token.
Badges ==
  << [badge |-> "green_starter", threshold |-> 100 * Cents],
     [badge |-> "eco_warrior", threshold |-> 1000 * Cents],
     [badge |-> "zero_carbon_hero", threshold |-> 10000 * Cents] >>

BadgeNames == {Badges[i].badge : i \in 1..Len(Badges)}

\* {a.badge for a in Achievement.query.filter_by(user_id=user_id)}
ExistingBadges(a, u) == {a[i].badge : i \in {j \in 1..Len(a) : a[j].user_id = u}}

AchievementsOf(a, u) == SelectSeq(a, LAMBDA r : r.user_id = u)

\* A loop that grants only the highest badge reached.
NewBadgesHighest(lifetime, existing) ==
  LET hit == SelectSeq(Badges,
               LAMBDA b : lifetime >= b.threshold /\ b.badge \notin existing)
  IN IF hit = <<>> THEN <<>> ELSE <<hit[Len(hit)].badge>>

\* The loop without its "badge not in existing" test.
NewBadgesUnchecked(lifetime, existing) ==
  LET hit == SelectSeq(Badges, LAMBDA b : lifetime >= b.threshold)
  IN [i \in 1..Len(hit) |-> hit[i].badge]

\* The loop of check_achievements: the badges it adds, in table order.
NewBadges(lifetime, existing) ==
  LET hit == SelectSeq(Badges,
               LAMBDA b : lifetime >= b.threshold /\ b.badge \notin existing)
  IN [i \in 1..Len(hit) |-> hit[i].badge]

(***************************************************************************)
(* Requests, handler locals and responses.                                  *)
(***************************************************************************)
Request(op, hdr, qry, body, carbon) ==
  [op |-> op, hdr |-> hdr, qry |-> qry, body |-> body, carbon |-> carbon]
NoReq == Request("", NoUser, NoUser, NoUser, JV("absent", 0))

\* The locals of earn_tokens and of the functions it calls: entry_found and
\* entry_lifetime are the row update_leaderboard read, lifetime is
\* summary["lifetime"], existing the set check_achievements read.
NoLoc ==
  [user_id |-> NoUser, carbon |-> 0, nan |-> FALSE, tokens |-> 0, date |-> 0,
   entry_found |-> FALSE, entry_lifetime |-> 0, totals |-> NoTotals,
   existing |-> {}]

Response(status, error, tokens, totals, unlocked, rows) ==
  [status |-> status, error |-> error, tokens_earned |-> tokens,
   totals |-> totals, unlocked |-> unlocked, rows |-> rows]
NoResp == Response(0, "", 0, NoTotals, <<>>, <<>>)
ErrorResp(status, error) == Response(status, error, 0, NoTotals, <<>>, <<>>)

LedgerRow(u, d, c, t) ==
  [user_id |-> u, date |-> d, carbon_saved_kg |-> c, tokens_earned |-> t]
BoardRow(u, t) == [user_id |-> u, lifetime_tokens |-> t]
AchRow(u, b) == [user_id |-> u, badge |-> b]

Finish(p, r) ==
  /\ pc' = [pc EXCEPT ![p] = "done"]
  /\ resp' = [resp EXCEPT ![p] = r]

Goto(p, label) ==
  /\ pc' = [pc EXCEPT ![p] = label]
  /\ UNCHANGED resp

(***************************************************************************)
(* The store the service starts on.  db.create_all() creates the tables and *)
(* writes no row; the leaderboard may hold rows of users registered out of  *)
(* band (nothing in token_api.py writes display_name), each with the column *)
(* default lifetime_tokens = 0.                                             *)
(***************************************************************************)
RegisteredBoard(s) == [i \in 1..Len(s) |-> BoardRow(s[i], 0)]

InitWith(b) ==
  /\ ledger = <<>>
  /\ board = b
  /\ achievements = <<>>
  /\ today = 0
  /\ pc = [p \in Procs |-> "idle"]
  /\ req = [p \in Procs |-> NoReq]
  /\ loc = [p \in Procs |-> NoLoc]
  /\ resp = [p \in Procs |-> NoResp]

Init == \E s \in SeqsOver(Users, Cardinality(Users)) : InitWith(RegisteredBoard(s))

(***************************************************************************)
(* POST /earn-tokens, lines 121-153, one action per database round trip.    *)
(***************************************************************************)
\* Lines 123-132: the user identifier, float(), validate_savings, the token
\* amount and date.today().  A ValueError or TypeError ends the request with 400.
\* On a body that is not an object, payload.get raises AttributeError, at line
\* 62 or at line 126; it is not caught and the request ends with 500.
earn_begin(p, r) ==
  /\ pc[p] = "idle"
  /\ r.op = "earn"
  /\ req' = [req EXCEPT ![p] = r]
  /\ LET u == parse_user_id(r)
         f == float(payload_get(r.carbon))
         v == validate_savings(f)
     IN IF u = NotAnObject \/ (u # NoUser /\ r.body = NotAnObject)
        THEN /\ Finish(p, ErrorResp(500, "AttributeError"))
             /\ UNCHANGED loc
        ELSE IF u = NoUser
        THEN /\ Finish(p, ErrorResp(400, "Missing user identifier."))
             /\ UNCHANGED loc
        ELSE IF f.exc # ""
        THEN /\ Finish(p, ErrorResp(400, f.exc))
             /\ UNCHANGED loc
        ELSE IF v # ""
        THEN /\ Finish(p, ErrorResp(400, v))
             /\ UNCHANGED loc
        ELSE /\ Goto(p, "ledger")
             /\ \E t \in tokens_for(f.n) :
                  loc' = [loc EXCEPT ![p] =
                            [NoLoc EXCEPT !.user_id = u, !.carbon = f.n, !.nan = f.nan,
                                          !.tokens = t, !.date = today]]
  /\ UNCHANGED <<store, today>>

\* A ledger insert that recognises a replay: a row equal to one the ledger
\* already holds is not stored a second time.
ledger_commit_once(p) ==
  /\ pc[p] = "ledger"
  /\ LET row == LedgerRow(loc[p].user_id, loc[p].date, loc[p].carbon, loc[p].tokens)
     IN IF loc[p].nan
        THEN /\ Finish(p, ErrorResp(500, "IntegrityError"))
             /\ UNCHANGED ledger
        ELSE /\ ledger' = IF \E i \in 1..Len(ledger) : ledger[i] = row
                          THEN ledger ELSE Append(ledger, row)
             /\ Goto(p, "lb_query")
  /\ UNCHANGED <<board, achievements, today, req, loc>>

\* Lines 134-141: the ledger row is inserted and committed.  NaN is bound as
\* NULL, which the NOT NULL columns refuse: the IntegrityError ends the request
\* with 500.
ledger_commit(p) ==
  /\ pc[p] = "ledger"
  /\ IF loc[p].nan
     THEN /\ Finish(p, ErrorResp(500, "IntegrityError"))
          /\ UNCHANGED ledger
     ELSE /\ ledger' = Append(ledger, LedgerRow(loc[p].user_id, loc[p].date,
                                                  loc[p].carbon, loc[p].tokens))
          /\ Goto(p, "lb_query")
  /\ UNCHANGED <<board, achievements, today, req, loc>>

\* Line 96: update_leaderboard reads the user's row.
lb_query(p) ==
  /\ pc[p] = "lb_query"
  /\ LET u == loc[p].user_id
     IN loc' = [loc EXCEPT ![p].entry_found = HasEntry(board, u),
                           ![p].entry_lifetime =
                              IF HasEntry(board, u) THEN LifetimeOf(board, u) ELSE 0]
  /\ Goto(p, "lb_update")
  /\ UNCHANGED <<store, today, req>>

\* Lines 97-101.  Without a row, the new LeaderboardEntry has lifetime_tokens
\* None until it is flushed (the column default is applied by the INSERT), so
\* line 100 raises TypeError: the request ends with 500 and the pending row is
\* rolled back with the session.  With a row, the total read at line 96 plus
\* the delta is written by the UPDATE of the commit; an unchanged value emits
\* no UPDATE.
lb_update(p) ==
  /\ pc[p] = "lb_update"
  /\ IF ~loc[p].entry_found
     THEN /\ Finish(p, ErrorResp(500, "TypeError"))
          /\ UNCHANGED board
     ELSE /\ LET new == loc[p].entry_lifetime + loc[p].tokens
                 i == EntryIndex(board, loc[p].user_id)
             IN board' = IF new = loc[p].entry_lifetime THEN board
                         ELSE [board EXCEPT ![i].lifetime_tokens = new]
          /\ Goto(p, "summarize")
  /\ UNCHANGED <<ledger, achievements, today, req, loc>>

\* Line 144: summarize_tokens reads the ledger under the date of the call.
summarize(p) ==
  /\ pc[p] = "summarize"
  /\ loc' = [loc EXCEPT ![p].totals = summarize_tokens(ledger, loc[p].user_id, today)]
  /\ Goto(p, "ach_query")
  /\ UNCHANGED <<store, today, req>>

\* Line 111: check_achievements reads the badges the user holds.
ach_query(p) ==
  /\ pc[p] = "ach_query"
  /\ loc' = [loc EXCEPT ![p].existing = ExistingBadges(achievements, loc[p].user_id)]
  /\ Goto(p, "ach_commit")
  /\ UNCHANGED <<store, today, req>>

\* Lines 112-118 and 147-153: the new badges are inserted and committed, and the
\* response is assembled.
ach_commit(p) ==
  /\ pc[p] = "ach_commit"
  /\ LET unlocked == NewBadges(loc[p].totals.lifetime, loc[p].existing)
     IN /\ achievements' = achievements \o
               [i \in 1..Len(unlocked) |-> AchRow(loc[p].user_id, unlocked[i])]
        /\ Finish(p, Response(200, "", loc[p].tokens, loc[p].totals, unlocked, <<>>))
  /\ UNCHANGED <<ledger, board, today, req, loc>>

\* A commit that the store refuses (the database is locked or unavailable): the
\* exception leaves the handler, the request ends with 500 and the session is
\* rolled back.
WritesSomething(p) ==
  \/ pc[p] = "ledger" /\ ~loc[p].nan
  \/ pc[p] = "lb_update" /\ loc[p].entry_found /\ loc[p].tokens # 0
  \/ pc[p] = "ach_commit" /\ NewBadges(loc[p].totals.lifetime, loc[p].existing) # <<>>

\* A refused ledger commit that is swallowed: the handler goes on to the leaderboard.
commit_fails_swallowed(p) ==
  /\ WritesSomething(p)
  /\ IF pc[p] = "ledger"
     THEN Goto(p, "lb_query")
     ELSE Finish(p, ErrorResp(500, "OperationalError"))
  /\ UNCHANGED <<store, today, req, loc>>

commit_fails(p) ==
  /\ WritesSomething(p)
  /\ Finish(p, ErrorResp(500, "OperationalError"))
  /\ UNCHANGED <<store, today, req, loc>>

\* The response is sent and the request context is torn down.
request_ends(p) ==
  /\ pc[p] = "done"
  /\ pc' = [pc EXCEPT ![p] = "idle"]
  /\ req' = [req EXCEPT ![p] = NoReq]
  /\ loc' = [loc EXCEPT ![p] = NoLoc]
  /\ resp' = [resp EXCEPT ![p] = NoResp]
  /\ UNCHANGED <<store, today>>

(***************************************************************************)
(* The read-only handlers.                                                  *)
(***************************************************************************)
\* GET /get-tokens, lines 156-181: the totals and the 50 newest ledger rows.
get_tokens(p, r) ==
  /\ pc[p] = "idle"
  /\ r.op = "get"
  /\ req' = [req EXCEPT ![p] = r]
  /\ LET u == parse_user_id(r)
     IN IF u = NotAnObject
        THEN Finish(p, ErrorResp(500, "AttributeError"))
        ELSE IF u = NoUser
        THEN Finish(p, ErrorResp(400, "Missing user identifier."))
        ELSE Finish(p, Response(200, "", 0, summarize_tokens(ledger, u, today), <<>>,
                                Prefix(Reverse(LedgerOf(ledger, u)), HistoryLimit)))
  /\ UNCHANGED <<store, today, loc>>

\* GET /leaderboard, lines 184-201.
leaderboard(p, r) ==
  /\ pc[p] = "idle"
  /\ r.op = "board"
  /\ req' = [req EXCEPT ![p] = r]
  /\ Finish(p, Response(200, "", 0, NoTotals, <<>>, top_entries(board)))
  /\ UNCHANGED <<store, today, loc>>

\* GET /achievements, lines 204-218.
achievements_get(p, r) ==
  /\ pc[p] = "idle"
  /\ r.op = "ach"
  /\ req' = [req EXCEPT ![p] = r]
  /\ LET u == parse_user_id(r)
     IN IF u = NotAnObject
        THEN Finish(p, ErrorResp(500, "AttributeError"))
        ELSE IF u = NoUser
        THEN Finish(p, ErrorResp(400, "Missing user identifier."))
        ELSE Finish(p, Response(200, "", 0, NoTotals, <<>>,
                                AchievementsOf(achievements, u)))
  /\ UNCHANGED <<store, today, loc>>

\* GET /health, lines 221-223.
health(p, r) ==
  /\ pc[p] = "idle"
  /\ r.op = "health"
  /\ req' = [req EXCEPT ![p] = r]
  /\ Finish(p, Response(200, "", 0, NoTotals, <<>>, <<>>))
  /\ UNCHANGED <<store, today, loc>>

\* date.today() moves on: k days pass.
day_passes(k) ==
  /\ k >= 1
  /\ today + k <= MaxDay
  /\ today' = today + k
  /\ UNCHANGED <<store, pc, req, loc, resp>>

(***************************************************************************)
(* The requests the clients send.                                           *)
(***************************************************************************)
Kg(n) == JV("num", n * KgUnit)

EarnOf(u, c) == Request("earn", NoUser, NoUser, u, c)
Plain(op) == Request(op, NoUser, NoUser, NoUser, JV("absent", 0))
Reads(op) == {Request(op, NoUser, NoUser, u, JV("absent", 0)) : u \in Users \cup {NoUser}}

\* Concurrent clients: an amount that reaches the first threshold, one that
\* reaches all three and one that is refused.
ConcEarns == {EarnOf(u, c) : u \in Users, c \in {Kg(10), Kg(1000), Kg(1500)}}

\* Every shape of the carbon_saved_kg field.
CarbonValues ==
  { JV("absent", 0), JV("null", 0), JV("str", 0), JV("nan", 0), JV("bool", 1),
    JV("list", 0), JV("num", -1), Kg(0), Kg(10), Kg(100), Kg(1000),
    JV("num", 1000 * KgUnit + 1), Kg(1500) }

SeqEarns == {EarnOf(u, c) : u \in Users \cup {NoUser}, c \in CarbonValues}

DayEarns == {EarnOf(u, Kg(10)) : u \in Users}

BoardEarns == {EarnOf(u, Kg(10)) : u \in 1..BoardUsers}

\* Amounts with up to four decimals, in units of 1 / KgUnit kg: 5 kg, the ends of
\* the range, amounts just below, on and just above half a hundredth of a token.
RoundAmounts ==
  { Kg(0), Kg(5), Kg(1000), JV("num", 4), JV("num", 5), JV("num", 6),
    JV("num", 12344), JV("num", 12345), JV("num", 12346) }

RoundEarns == {EarnOf(u, c) : u \in Users, c \in RoundAmounts}

\* Every way of sending, or not sending, a user identifier: in the X-User-Id
\* header, in the user_id query parameter, in the user_id field of the JSON
\* body, which may also be something else than an object.
IdRequests(op, c) ==
  { Request(op, h, q, b, c) :
      h \in Users \cup {NoUser}, q \in Users \cup {NoUser},
      b \in Users \cup {NoUser, NotAnObject} }

(***************************************************************************)
(* The steps of a request in flight.                                        *)
(***************************************************************************)
Step(p) ==
  \/ ledger_commit(p)
  \/ lb_query(p)
  \/ lb_update(p)
  \/ summarize(p)
  \/ ach_query(p)
  \/ ach_commit(p)
  \/ request_ends(p)

\* No request is in flight.
Quiet == \A q \in Procs : pc[q] = "idle"

\* Fewer than n earn requests have reached or are about to reach the ledger.
Budget(n) == Len(ledger) + Cardinality({q \in Procs : pc[q] = "ledger"}) < n

\* The worker that serves the requests that come one at a time.
Worker == CHOOSE p \in Procs : TRUE

\* Concurrent requests, every commit succeeding.
NextConc ==
  \E p \in Procs :
    \/ Budget(MaxConcEarns) /\ \E r \in ConcEarns : earn_begin(p, r)
    \/ Step(p)

SpecConc == Init /\ [][NextConc]_vars

\* Concurrent requests and storage failures.
Next ==
  \E p \in Procs :
    \/ Budget(MaxConcEarns) /\ \E r \in ConcEarns : earn_begin(p, r)
    \/ Step(p)
    \/ commit_fails(p)

Spec == Init /\ [][Next]_vars

\* One request at a time, every commit succeeding.
NextSeq ==
  \/ Quiet /\ Budget(MaxEarns) /\ \E r \in SeqEarns : earn_begin(Worker, r)
  \/ Quiet /\ \E r \in Reads("get") : get_tokens(Worker, r)
  \/ Quiet /\ \E r \in Reads("ach") : achievements_get(Worker, r)
  \/ Quiet /\ leaderboard(Worker, Plain("board"))
  \/ Quiet /\ health(Worker, Plain("health"))
  \/ Step(Worker)

SpecSeq == Init /\ [][NextSeq]_vars

\* One request at a time while the days pass; user 1 is registered, user 2 is not.
NextDays ==
  \/ Quiet /\ Budget(MaxEarns) /\ \E r \in DayEarns : earn_begin(Worker, r)
  \/ Quiet /\ \E r \in Reads("get") : get_tokens(Worker, r)
  \/ Step(Worker)
  \/ \E k \in 1..MaxDay : day_passes(k)

SpecDays == InitWith(RegisteredBoard(<<1>>)) /\ [][NextDays]_vars

\* One request at a time on a board of BoardUsers registered users.
NextBoard ==
  \/ Quiet /\ Budget(MaxBoardEarns) /\ \E r \in BoardEarns : earn_begin(Worker, r)
  \/ Quiet /\ leaderboard(Worker, Plain("board"))
  \/ Step(Worker)

SpecBoard ==
  InitWith(RegisteredBoard([i \in 1..BoardUsers |-> i])) /\ [][NextBoard]_vars

\* One request at a time with amounts that need rounding; user 1 is registered.
NextRound ==
  \/ Quiet /\ Budget(MaxRoundEarns) /\ \E r \in RoundEarns : earn_begin(Worker, r)
  \/ Step(Worker)

SpecRound == InitWith(RegisteredBoard(<<1>>)) /\ [][NextRound]_vars

\* One request at a time, the user identifier sent in every way.
NextIds ==
  \/ Quiet /\ Budget(MaxIdEarns) /\ \E r \in IdRequests("earn", Kg(10)) : earn_begin(Worker, r)
  \/ Quiet /\ \E r \in IdRequests("get", JV("absent", 0)) : get_tokens(Worker, r)
  \/ Quiet /\ \E r \in IdRequests("ach", JV("absent", 0)) : achievements_get(Worker, r)
  \/ Step(Worker)

SpecIds == Init /\ [][NextIds]_vars

(***************************************************************************)
(* Properties.                                                              *)
(***************************************************************************)
\* What the claims call the sum of tokens_earned over the user's ledger entries,
\* counted entry by entry.
RECURSIVE LedgerSum(_, _)
LedgerSum(u, n) ==
  IF n = 0 THEN 0
  ELSE LedgerSum(u, n - 1) + (IF ledger[n].user_id = u THEN ledger[n].tokens_earned ELSE 0)

EarnedBy(u) == LedgerSum(u, Len(ledger))

HasLedger(u) == \E i \in 1..Len(ledger) : ledger[i].user_id = u

BoardUsersNow == {board[i].user_id : i \in 1..Len(board)}

\* p takes the first step of an earn request in this step.
EarnArrives(p) == pc[p] = "idle" /\ pc'[p] # "idle" /\ req'[p].op = "earn"

\* C1: leaderboard consistency.  With the earn requests served one at a time and
\* no request in flight, every user with a ledger entry has a LeaderboardEntry
\* whose lifetime_tokens is the sum of the tokens_earned of the user's entries.
C1_LeaderboardConsistency ==
  Quiet => \A u \in Users :
             HasLedger(u) => HasEntry(board, u) /\ LifetimeOf(board, u) = EarnedBy(u)

\* C2: an earn request whose carbon_saved_kg is negative, above 1000 or not a
\* number is answered 400 at once and leaves the three tables as they were.
NotANumber(v) == v.k \in {"str", "null", "list", "nan"}
OutOfRange(v) ==
  v.k \in {"num", "numstr"} /\ (v.n < 0 \/ v.n > MAX_SAVINGS_PER_DAY * KgUnit)

C2_InvalidAmountRejected ==
  [][\A p \in Procs :
       EarnArrives(p) /\ (NotANumber(req'[p].carbon) \/ OutOfRange(req'[p].carbon))
         => pc'[p] = "done" /\ resp'[p].status = 400 /\ store' = store]_vars

C4_NoLostUpdate ==
  Quiet => \A u \in BoardUsersNow : LifetimeOf(board, u) = EarnedBy(u)

\* C5: in every reachable state there is at most one AchievementRecord for each
\* (user, badge) pair.
C5_OneRecordPerBadge ==
  \A i, j \in 1..Len(achievements) : achievements[i] = achievements[j] => i = j

\* C6: idempotent unlock.  When a call of check_achievements that follows the
\* earlier ones completes, it returns no badge the user already holds (every badge
\* an earlier call returned is held), it adds exactly the badges it returns, and
\* no (user, badge) pair is recorded twice.
C6_IdempotentUnlock ==
  [][\A p \in Procs :
       pc[p] = "ach_commit" /\ pc'[p] = "done" /\ resp'[p].status = 200
         => LET u == loc[p].user_id
                held == ExistingBadges(achievements, u)
                back == {resp'[p].unlocked[i] : i \in 1..Len(resp'[p].unlocked)}
            IN /\ back \cap held = {}
               /\ ExistingBadges(achievements', u) = held \cup back
               /\ Len(achievements') = Len(achievements) + Cardinality(back)
               /\ Len(AchievementsOf(achievements', u)) = Cardinality(held \cup back)
    ]_vars

\* A second call with a higher total: green_starter is held, the total has passed
\* 1000 and the call returned eco_warrior alone.
C6_Witness ==
  \E p \in Procs :
    /\ pc[p] = "done" /\ resp[p].status = 200
    /\ req[p].op = "earn"
    /\ loc[p].existing = {"green_starter"}
    /\ resp[p].unlocked = <<"eco_warrior">>
    /\ Len(AchievementsOf(achievements, loc[p].user_id)) = 2

\* C7: the leaderboard and the achievements follow the ledger.  A request whose
\* ledger commit fails ends with 500 and changes neither table, and in every
\* reachable state the lifetime_tokens of a LeaderboardEntry is at most the sum
\* of the tokens_earned of the user's ledger entries.
C7_LedgerFirst ==
  /\ [](\A u \in BoardUsersNow : LifetimeOf(board, u) <= EarnedBy(u))
  /\ [][\A p \in Procs :
          pc[p] = "ledger" /\ pc'[p] # "ledger" /\ ledger' = ledger
            => /\ pc'[p] = "done" /\ resp'[p].status = 500
               /\ board' = board /\ achievements' = achievements]_vars

\* A request whose ledger commit was refused has ended, beside a total that was
\* raised by another request.
C7_Witness ==
  \E p \in Procs :
    /\ pc[p] = "done"
    /\ resp[p].error = "OperationalError"
    /\ ~loc[p].entry_found
    /\ loc[p].totals = NoTotals
    /\ HasEntry(board, loc[p].user_id)
    /\ LifetimeOf(board, loc[p].user_id) > 0

\* C8: an earn request is atomic.  In every reachable state, which any other
\* request can read, every stored ledger entry of a user with a LeaderboardEntry
\* is counted in lifetime_tokens and every badge whose threshold the user's
\* ledger has reached is recorded.
C8_EarnIsAtomic ==
  \A u \in BoardUsersNow :
    /\ LifetimeOf(board, u) = EarnedBy(u)
    /\ \A i \in 1..Len(Badges) :
         Badges[i].threshold <= EarnedBy(u)
           => Badges[i].badge \in ExistingBadges(achievements, u)

\* The month a day falls in, counted from the first month of MonthLengths.
RECURSIVE MonthFrom(_, _)
MonthFrom(n, m) == IF n <= MonthLengths[m] THEN m ELSE MonthFrom(n - MonthLengths[m], m + 1)
MonthOf(d) == MonthFrom(EpochDom + d, 1)

RECURSIVE SumOver(_)
SumOver(S) ==
  IF S = {} THEN 0
  ELSE LET i == CHOOSE j \in S : TRUE
       IN ledger[i].tokens_earned + SumOver(S \ {i})

EntriesOf(u) == {i \in 1..Len(ledger) : ledger[i].user_id = u}

\* The totals the claim asks of user u on day d.
WindowsRight(t, u, d) ==
  /\ t.week = SumOver({i \in EntriesOf(u) : d - 6 <= ledger[i].date /\ ledger[i].date <= d})
  /\ t.month = SumOver({i \in EntriesOf(u) :
                          MonthOf(ledger[i].date) = MonthOf(d) /\ ledger[i].date <= d})
  /\ t.lifetime = SumOver(EntriesOf(u))

\* C9: window correctness.  Whenever summarize_tokens is called for a user on day
\* D, by an earn request or by get-tokens, week is the sum over the user's entries
\* dated D-6 through D, month the sum over the entries of D's calendar month up to
\* D, and lifetime the sum over all the user's entries.
C9_WindowCorrectness ==
  [][\A p \in Procs :
       /\ pc[p] = "summarize" /\ pc'[p] = "ach_query"
            => WindowsRight(loc'[p].totals, loc[p].user_id, today)
       /\ pc[p] = "idle" /\ req'[p].op = "get" /\ resp'[p].status = 200
            => WindowsRight(resp'[p].totals, parse_user_id(req'[p]), today)
    ]_vars

\* get-tokens has answered on day D for a user with one entry dated D-7 (out of
\* the week), one dated D-6 in the month before (in the week, out of the month)
\* and one dated D.
C9_Witness ==
  \E p \in Procs :
    /\ pc[p] = "done" /\ req[p].op = "get" /\ resp[p].status = 200
    /\ LET u == parse_user_id(req[p])
           dates == {ledger[i].date : i \in EntriesOf(u)}
       IN /\ dates = {today - 7, today - 6, today}
          /\ MonthOf(today - 6) # MonthOf(today)
          /\ resp[p].totals.lifetime = SumOver(EntriesOf(u))
          /\ resp[p].totals.week < resp[p].totals.lifetime
          /\ resp[p].totals.month < resp[p].totals.week
          /\ resp[p].totals.month > 0

\* The place of a user's row in the leaderboard table, in insertion order.
BoardPos(u) == CHOOSE i \in 1..Len(board) : board[i].user_id = u

Abs(n) == IF n < 0 THEN 0 - n ELSE n

\* t hundredths of a token is x * 10 rounded to two decimals for x = c / 10000 kg:
\* x * 10 is c / 10 hundredths, and t is within half a hundredth of it.
IsTenTimesRounded(t, c) == 2 * Abs(10 * t - c) <= 10

\* C11: for every accepted amount x in [0, 1000], the tokens_earned stored in the
\* ledger entry and the tokens_earned returned by the earn request are both x * 10
\* rounded to two decimal places, and they are the same value; 5 kg gives 50.0.
C11_TokenCalculation ==
  /\ \A i \in 1..Len(ledger) :
        /\ IsTenTimesRounded(ledger[i].tokens_earned, ledger[i].carbon_saved_kg)
        /\ ledger[i].carbon_saved_kg = 50000 => ledger[i].tokens_earned = 5000
  /\ \A p \in Procs :
        pc[p] \notin {"idle", "ledger"} /\ req[p].op = "earn" /\ resp[p].status \in {0, 200}
          => /\ ledger # <<>>
             /\ ledger[Len(ledger)].user_id = req[p].body
             /\ ledger[Len(ledger)].carbon_saved_kg = req[p].carbon.n
             /\ resp[p].status = 200
                  => /\ resp[p].tokens_earned = ledger[Len(ledger)].tokens_earned
                     /\ IsTenTimesRounded(resp[p].tokens_earned, req[p].carbon.n)

\* An amount of 1.2346 kg was stored and answered as 12.35 tokens, after 5 kg was
\* stored as 50.0 tokens.
C11_Witness ==
  /\ Len(ledger) = 2
  /\ ledger[1].carbon_saved_kg = 50000 /\ ledger[1].tokens_earned = 5000
  /\ ledger[2].carbon_saved_kg = 12346 /\ ledger[2].tokens_earned = 1235
  /\ \E p \in Procs :
        /\ pc[p] = "done" /\ resp[p].status = 200
        /\ req[p].carbon.n = 12346 /\ resp[p].tokens_earned = 1235

(***************************************************************************)
(* C12.                                                                     *)
(***************************************************************************)
\* A request arrives at an endpoint that needs a user.
NeedsUser(p) ==
  pc[p] = "idle" /\ pc'[p] # "idle" /\ req'[p].op \in {"earn", "get", "ach"}

\* The identifier the request carries: header, else query parameter, else the
\* user_id field of the body; NoUser when it carries none.
Carried(r) ==
  IF r.hdr \in Users THEN r.hdr
  ELSE IF r.qry \in Users THEN r.qry
       ELSE IF r.body \in Users THEN r.body ELSE NoUser

\* The request is served on behalf of user u.
ServedFor(p, u) ==
  CASE req'[p].op = "earn" ->
         resp'[p].status # 400 /\ (pc'[p] = "ledger" => loc'[p].user_id = u)
    [] req'[p].op = "get" ->
         /\ resp'[p].status = 200
         /\ resp'[p].totals = summarize_tokens(ledger, u, today)
         /\ resp'[p].rows = Prefix(Reverse(LedgerOf(ledger, u)), HistoryLimit)
    [] OTHER ->
         /\ resp'[p].status = 200
         /\ resp'[p].rows = AchievementsOf(achievements, u)

\* C12: at every endpoint that needs a user the identifier is taken from the
\* header if present, else from the query parameter, else from the body field;
\* a request with none of the three ends in a client error (4xx), not in a
\* server fault, and leaves the store unchanged.
C12_UserResolution ==
  [][\A p \in Procs :
       NeedsUser(p) =>
         IF Carried(req'[p]) = NoUser
         THEN /\ pc'[p] = "done"
              /\ resp'[p].status = 400
              /\ store' = store
         ELSE ServedFor(p, Carried(req'[p]))]_vars

\* The same with every body a JSON object.
C12_ObjectBodies ==
  [][\A p \in Procs :
       NeedsUser(p) /\ req'[p].body # NotAnObject =>
         IF Carried(req'[p]) = NoUser
         THEN /\ pc'[p] = "done"
              /\ resp'[p].status = 400
              /\ store' = store
         ELSE /\ ServedFor(p, Carried(req'[p]))
              /\ req'[p].op = "earn" => pc'[p] = "ledger"]_vars

(***************************************************************************)
(* C13.                                                                     *)
(***************************************************************************)
\* An earn request with a user identifier and a JSON number as its amount, in
\* units of 1 / 10000 kg.
NumericEarn(r) == r.op = "earn" /\ Carried(r) # NoUser /\ r.carbon.k = "num"

\* C13: an earn request with a user identifier and a numeric amount is accepted
\* exactly when 0 <= carbon_saved_kg <= 1000.  0 and 1000 are accepted, and the
\* accepted 0 appends a ledger entry with 0 tokens; any value below 0 is refused
\* with the "must be positive" reason and any value above 1000 with the
\* realistic-threshold reason, both as client errors that leave the store alone.
C13_RangeBoundaries ==
  [][\A p \in Procs :
       /\ EarnArrives(p) /\ NumericEarn(req'[p]) =>
            LET x == req'[p].carbon.n
            IN /\ (0 <= x /\ x <= 1000 * 10000) <=> pc'[p] = "ledger"
               /\ x < 0 => /\ pc'[p] = "done" /\ resp'[p].status = 400
                           /\ resp'[p].error = "Carbon saved must be positive."
                           /\ store' = store
               /\ x > 1000 * 10000 =>
                           /\ pc'[p] = "done" /\ resp'[p].status = 400
                           /\ resp'[p].error = "Reported savings exceed realistic thresholds."
                           /\ store' = store
       /\ pc[p] = "ledger" /\ pc'[p] # "ledger" /\ NumericEarn(req[p]) =>
            /\ Len(ledger') = Len(ledger) + 1
            /\ ledger'[Len(ledger')].user_id = Carried(req[p])
            /\ ledger'[Len(ledger')].carbon_saved_kg = req[p].carbon.n
            /\ req[p].carbon.n = 0 => ledger'[Len(ledger')].tokens_earned = 0]_vars

\* The ledger holds an entry of 0 kg with 0 tokens and an entry of 1000 kg, and a
\* request just above 1000 kg has been refused.
C13_Witness ==
  /\ \E i \in 1..Len(ledger) :
        ledger[i].carbon_saved_kg = 0 /\ ledger[i].tokens_earned = 0
  /\ \E i \in 1..Len(ledger) : ledger[i].carbon_saved_kg = 1000 * 10000
  /\ \E p \in Procs :
        /\ pc[p] = "done" /\ req[p].carbon = JV("num", 1000 * 10000 + 1)
        /\ resp[p].error = "Reported savings exceed realistic thresholds."

(***************************************************************************)
(* C14.                                                                     *)
(***************************************************************************)
\* The user's entries dated exactly d.
EntriesOn(u, d) == {i \in EntriesOf(u) : ledger[i].date = d}

\* C14: after any sequence of earns and day changes, whenever summarize_tokens is
\* called for a user on day D, by an earn request or by get-tokens, its today
\* total is the sum of tokens_earned over the user's entries dated exactly D.
C14_TodayTotal ==
  [][\A p \in Procs :
       /\ pc[p] = "summarize" /\ pc'[p] = "ach_query"
            => loc'[p].totals.today = SumOver(EntriesOn(loc[p].user_id, today))
       /\ pc[p] = "idle" /\ req'[p].op = "get" /\ resp'[p].status = 200
            => resp'[p].totals.today = SumOver(EntriesOn(parse_user_id(req'[p]), today))
    ]_vars

\* get-tokens has answered on day D for a user with two entries dated D and one
\* dated the day before: today counts the two and leaves the third out.
C14_Witness ==
  \E p \in Procs :
    /\ pc[p] = "done" /\ req[p].op = "get" /\ resp[p].status = 200
    /\ LET u == parse_user_id(req[p])
       IN /\ Cardinality(EntriesOn(u, today)) = 2
          /\ Cardinality(EntriesOn(u, today - 1)) = 1
          /\ resp[p].totals.today = SumOver(EntriesOn(u, today))
          /\ resp[p].totals.today > 0
          /\ resp[p].totals.today < resp[p].totals.week

(***************************************************************************)
(* C15.                                                                     *)
(***************************************************************************)
\* The badges and their thresholds in hundredths of a token, lowest first.
BadgeLadder ==
  << [badge |-> "green_starter", at |-> 100 * 100],
     [badge |-> "eco_warrior", at |-> 1000 * 100],
     [badge |-> "zero_carbon_hero", at |-> 10000 * 100] >>

\* The badges with a threshold t, l0 < t <= l1, in increasing threshold order.
BadgesCrossed(l0, l1) ==
  LET crossed == SelectSeq(BadgeLadder, LAMBDA b : l0 < b.at /\ b.at <= l1)
  IN [i \in 1..Len(crossed) |-> crossed[i].badge]

\* The earn request of p, whose ledger entry is stored, ends in this step.
EarnEnds(p) ==
  /\ req[p].op = "earn"
  /\ pc[p] \in {"lb_query", "lb_update", "summarize", "ach_query", "ach_commit"}
  /\ pc'[p] = "done"

\* C15: with the earn requests run one at a time, every accepted earn that moves
\* the user's lifetime total from L0 to L1 answers with the list of exactly the
\* badges whose threshold t satisfies L0 < t <= L1, in increasing threshold
\* order.
C15_UnlockedList ==
  [][\A p \in Procs :
       EarnEnds(p) =>
         /\ resp'[p].status = 200
         /\ resp'[p].unlocked =
              BadgesCrossed(EarnedBy(loc[p].user_id) - loc[p].tokens,
                            EarnedBy(loc[p].user_id))]_vars

\* The same for the users that have a leaderboard row.
C15_WithLeaderboardRow ==
  [][\A p \in Procs :
       EarnEnds(p) /\ HasEntry(board, loc[p].user_id) =>
         /\ resp'[p].status = 200
         /\ resp'[p].unlocked =
              BadgesCrossed(EarnedBy(loc[p].user_id) - loc[p].tokens,
                            EarnedBy(loc[p].user_id))]_vars

(***************************************************************************)
(* C16.                                                                     *)
(***************************************************************************)
\* An accepted earn request: a user identifier and an amount from 0 to 1000 kg.
AcceptedEarn(r) ==
  NumericEarn(r) /\ 0 <= r.carbon.n /\ r.carbon.n <= 1000 * 10000

\* C16: the ledger is append-only and earn is not idempotent.  No step changes or
\* removes an entry; every accepted earn request appends exactly one entry, its
\* own, also when the ledger already holds an equal entry from an earlier
\* submission; and the lifetime total counts every entry, a replayed one twice.
C16_AppendOnly ==
  [][/\ Len(ledger') >= Len(ledger)
     /\ SubSeq(ledger', 1, Len(ledger)) = ledger
     /\ \A p \in Procs :
          /\ EarnArrives(p) /\ AcceptedEarn(req'[p]) => pc'[p] = "ledger"
          /\ pc[p] = "ledger" /\ pc'[p] # "ledger" /\ AcceptedEarn(req[p]) =>
               /\ Len(ledger') = Len(ledger) + 1
               /\ ledger'[Len(ledger')].user_id = Carried(req[p])
               /\ ledger'[Len(ledger')].carbon_saved_kg = req[p].carbon.n
          /\ pc[p] = "summarize" /\ pc'[p] = "ach_query" =>
               loc'[p].totals.lifetime = SumOver(EntriesOf(loc[p].user_id))
     /\ (\A p \in Procs : ~(pc[p] = "ledger" /\ pc'[p] # "ledger")) => ledger' = ledger
    ]_vars

\* The same request was sent twice: the ledger holds two equal entries, and the
\* second request was answered with a lifetime total that counts both.
C16_Witness ==
  /\ Len(ledger) = 2
  /\ ledger[1] = ledger[2]
  /\ ledger[1].tokens_earned > 0
  /\ \E p \in Procs :
        /\ pc[p] = "done" /\ req[p].op = "earn" /\ resp[p].status = 200
        /\ resp[p].totals.lifetime = 2 * ledger[1].tokens_earned

(***************************************************************************)
(* C17.                                                                     *)
(***************************************************************************)
\* C17: across every step of every execution, the lifetime_tokens of a user's
\* leaderboard entry never decreases, and an achievement record, once written,
\* is never removed.
C17_Monotonic ==
  [][/\ \A u \in Users :
          HasEntry(board, u) =>
            /\ HasEntry(board', u)
            /\ LifetimeOf(board', u) >= LifetimeOf(board, u)
     /\ Len(achievements') >= Len(achievements)
     /\ SubSeq(achievements', 1, Len(achievements)) = achievements]_vars

(***************************************************************************)
(* C18.                                                                     *)
(***************************************************************************)
\* User u holds every badge whose threshold the ledger sum l has reached.
HoldsBadgesUpTo(a, u, l) ==
  \A i \in 1..Len(BadgeLadder) :
    BadgeLadder[i].at <= l => BadgeLadder[i].badge \in ExistingBadges(a, u)

\* C18: after every earn request that completes successfully, the user holds an
\* achievement record for every badge whose threshold is at most the sum of
\* tokens_earned over the user's ledger entries, also when an earlier earn of
\* the user failed after its ledger append and before its achievement check.
C18_AchievementCompleteness ==
  [][\A p \in Procs :
       req[p].op = "earn" /\ pc[p] # "done" /\ pc'[p] = "done" /\ resp'[p].status = 200
         => HoldsBadgesUpTo(achievements', loc[p].user_id,
                            SumOver({i \in 1..Len(ledger') :
                                       ledger'[i].user_id = loc[p].user_id}))]_vars

(***************************************************************************)
(* C19.                                                                     *)
(***************************************************************************)
\* C19: in every reachable state the set of badges a user holds is closed
\* downward in threshold order: eco_warrior comes with green_starter, and
\* zero_carbon_hero with eco_warrior and green_starter.
C19_BadgeClosure ==
  \A u \in Users :
    LET held == ExistingBadges(achievements, u)
    IN /\ "eco_warrior" \in held => "green_starter" \in held
       /\ "zero_carbon_hero" \in held => {"eco_warrior", "green_starter"} \subseteq held

\* One user holds all three badges, unlocked by one request; the other holds the
\* lowest one only.
C19_Witness ==
  \E u, v \in Users :
    /\ ExistingBadges(achievements, u) =
         {"green_starter", "eco_warrior", "zero_carbon_hero"}
    /\ ExistingBadges(achievements, v) = {"green_starter"}
    /\ \E p \in Procs :
          /\ pc[p] = "done" /\ resp[p].status = 200
          /\ Len(resp[p].unlocked) = 3

(***************************************************************************)
(* C20.                                                                     *)
(***************************************************************************)
\* The earn request that process p takes a step of, NoReq when p takes none or
\* serves another endpoint.
EarnStepOf(p) ==
  IF pc'[p] = pc[p] THEN NoReq
  ELSE IF pc[p] = "idle"
       THEN (IF req'[p].op = "earn" THEN req'[p] ELSE NoReq)
       ELSE (IF req[p].op = "earn" THEN req[p] ELSE NoReq)

\* Everything the store holds and answers about user u.
ViewOf(l, b, a, d, u) ==
  [ ledger |-> LedgerOf(l, u),
    totals |-> summarize_tokens(l, u, d),
    entry |-> SelectSeq(b, LAMBDA e : e.user_id = u),
    achievements |-> AchievementsOf(a, u) ]

\* C20: user isolation.  No step of an earn request for user A, accepted or
\* refused, changes the ledger entries, the totals summarize_tokens returns, the
\* leaderboard entry or the achievement records of another user B.
C20_UserIsolation ==
  [][\A p \in Procs :
       EarnStepOf(p).op = "earn" =>
         \A B \in Users \ {Carried(EarnStepOf(p))} :
           ViewOf(ledger', board', achievements', today', B)
             = ViewOf(ledger, board, achievements, today, B)]_vars

\* An earn request for A has been answered with a badge while B, the user of the
\* second leaderboard row, has a ledger entry, a positive leaderboard total and a
\* badge of their own.
C20_Witness ==
  \E p \in Procs : \E B \in Users :
    /\ pc[p] = "done" /\ req[p].op = "earn" /\ resp[p].status = 200
    /\ resp[p].unlocked # <<>>
    /\ Carried(req[p]) # B
    /\ Len(board) = 2 /\ board[2].user_id = B /\ board[2].lifetime_tokens > 0
    /\ board[1].lifetime_tokens > 0
    /\ LedgerOf(ledger, B) # <<>>
    /\ AchievementsOf(achievements, B) # <<>>

====
